---- MODULE Spec2Model ----
(***************************************************************************)
(* A model of the S/SH pronunciation coach: the React component of         *)
(* src/src/App.tsx (view state, the recognition adapter, the feedback      *)
(* requester, the record and next-item handlers) and the backend handler   *)
(* of src/unnamed/part_000.                                                *)
(*                                                                         *)
(* Texts are TLA+ strings, read character by character with SubSeq.  A     *)
(* TLA+ string literal cannot hold a backtick, so the backtick of the      *)
(* markdown fence is written as the character TICK below.                  *)
(***************************************************************************)
EXTENDS Integers, Sequences, FiniteSets, TLC

(***************************************************************************)
(* Bounds of the model.                                                    *)
(***************************************************************************)
MaxAttempts == 2
MaxRequests == 2

(***************************************************************************)
(* Characters and the string functions of the platform.                    *)
(***************************************************************************)
TICK == "'"
FENCE == TICK \o TICK \o TICK
QUOTE == "\""
WhiteSpace == {" ", "\n", "\t", "\r"}
Digits == {"0", "1", "2", "3", "4", "5", "6", "7", "8", "9"}
UpperCase == "ABCDEFGHIJKLMNOPQRSTUVWXYZ"
LowerCase == "abcdefghijklmnopqrstuvwxyz"

\* s[i], or "" outside the string.
At(s, i) == IF i >= 1 /\ i <= Len(s) THEN SubSeq(s, i, i) ELSE ""

\* s.substring(i - 1, j): the text from position i to position j, cut at the
\* end of the string.
Slice(s, i, j) == SubSeq(s, i, IF j > Len(s) THEN Len(s) ELSE j)

\* s.slice(i - 1): the text from position i to the end.
From(s, i) == SubSeq(s, i, Len(s))

RECURSIVE SkipWs(_, _)
\* The first position at or after i that holds no white space.
SkipWs(s, i) == IF At(s, i) \in WhiteSpace THEN SkipWs(s, i + 1) ELSE i

RECURSIVE SkipWsBack(_, _)
\* The last position at or before i that holds no white space.
SkipWsBack(s, i) == IF At(s, i) \in WhiteSpace THEN SkipWsBack(s, i - 1) ELSE i

\* String.prototype.trim
Trim(s) == SubSeq(s, SkipWs(s, 1), SkipWsBack(s, Len(s)))

\* One character of String.prototype.toLowerCase
LowerChar(c) ==
    IF \E k \in 1..26 : SubSeq(UpperCase, k, k) = c
    THEN LET k == CHOOSE k \in 1..26 : SubSeq(UpperCase, k, k) = c
         IN SubSeq(LowerCase, k, k)
    ELSE c

RECURSIVE ToLowerCase(_)
\* String.prototype.toLowerCase
ToLowerCase(s) ==
    IF s = "" THEN "" ELSE LowerChar(SubSeq(s, 1, 1)) \o ToLowerCase(From(s, 2))

\* String.prototype.includes
Includes(s, part) ==
    \E i \in 1..(Len(s) - Len(part) + 1) : SubSeq(s, i, i + Len(part) - 1) = part

(***************************************************************************)
(* JavaScript values as they come out of JSON.parse.  Scalars keep their   *)
(* text in s, arrays their elements in e, objects their members in m.      *)
(***************************************************************************)
JsNull == [t |-> "null"]
JsBoolean(s) == [t |-> "boolean", s |-> s]
JsNumber(s) == [t |-> "number", s |-> s]
JsString(s) == [t |-> "string", s |-> s]
JsArray(e) == [t |-> "array", e |-> e]
JsObject(m) == [t |-> "object", m |-> m]

SyntaxError == [ok |-> FALSE, v |-> JsNull, i |-> 0]
Parsed(v, i) == [ok |-> TRUE, v |-> v, i |-> i]

RECURSIVE StringEnd(_, _)
\* The position of the quote that closes the JSON string whose content
\* starts at i; 0 when the string is not closed or holds a character that
\* needs an escape (escape sequences are outside the modelled alphabet).
StringEnd(s, i) ==
    IF i > Len(s) THEN 0
    ELSE IF At(s, i) = QUOTE THEN i
    ELSE IF At(s, i) \in {"\\", "\n", "\r", "\t"} THEN 0
    ELSE StringEnd(s, i + 1)

\* A JSON string starting at the quote at position i.
ParseString(s, i) ==
    LET j == StringEnd(s, i + 1)
    IN IF At(s, i) = QUOTE /\ j > 0
       THEN Parsed(JsString(SubSeq(s, i + 1, j - 1)), j + 1)
       ELSE SyntaxError

RECURSIVE DigitsEnd(_, _)
\* The first position at or after i that holds no digit.
DigitsEnd(s, i) == IF At(s, i) \in Digits THEN DigitsEnd(s, i + 1) ELSE i

\* A JSON integer starting at position i (fractions and exponents are
\* outside the modelled alphabet).
ParseNumber(s, i) ==
    LET d == IF At(s, i) = "-" THEN i + 1 ELSE i
        j == DigitsEnd(s, d)
    IN IF j > d /\ (At(s, d) # "0" \/ j = d + 1)
       THEN Parsed(JsNumber(SubSeq(s, i, j - 1)), j)
       ELSE SyntaxError

RECURSIVE ParseValue(_, _), ParseElements(_, _, _), ParseMembers(_, _, _)
\* A JSON value starting at or after position i, white space skipped.
ParseValue(s, i) ==
    LET p == SkipWs(s, i)
        c == At(s, p)
    IN IF c = "{"
       THEN IF At(s, SkipWs(s, p + 1)) = "}"
            THEN Parsed(JsObject(<<>>), SkipWs(s, p + 1) + 1)
            ELSE ParseMembers(s, p + 1, <<>>)
       ELSE IF c = "["
       THEN IF At(s, SkipWs(s, p + 1)) = "]"
            THEN Parsed(JsArray(<<>>), SkipWs(s, p + 1) + 1)
            ELSE ParseElements(s, p + 1, <<>>)
       ELSE IF c = QUOTE THEN ParseString(s, p)
       ELSE IF c = "-" \/ c \in Digits THEN ParseNumber(s, p)
       ELSE IF Slice(s, p, p + 3) = "null" THEN Parsed(JsNull, p + 4)
       ELSE IF Slice(s, p, p + 3) = "true" THEN Parsed(JsBoolean("true"), p + 4)
       ELSE IF Slice(s, p, p + 4) = "false" THEN Parsed(JsBoolean("false"), p + 5)
       ELSE SyntaxError

\* The elements of an array from position i on, acc holding those read.
ParseElements(s, i, acc) ==
    LET r == ParseValue(s, i)
        p == SkipWs(s, r.i)
    IN IF ~r.ok THEN SyntaxError
       ELSE IF At(s, p) = "," THEN ParseElements(s, p + 1, Append(acc, r.v))
       ELSE IF At(s, p) = "]" THEN Parsed(JsArray(Append(acc, r.v)), p + 1)
       ELSE SyntaxError

\* The members of an object from position i on, acc holding those read; a
\* repeated key keeps its last value.
ParseMembers(s, i, acc) ==
    LET k == ParseString(s, SkipWs(s, i))
        c == SkipWs(s, k.i)
        r == ParseValue(s, c + 1)
        p == SkipWs(s, r.i)
        m == (k.v.s :> r.v) @@ acc
    IN IF ~k.ok \/ At(s, c) # ":" THEN SyntaxError
       ELSE IF ~r.ok THEN SyntaxError
       ELSE IF At(s, p) = "," THEN ParseMembers(s, p + 1, m)
       ELSE IF At(s, p) = "}" THEN Parsed(JsObject(m), p + 1)
       ELSE SyntaxError

\* JSON.parse: one value, white space around it, nothing else.
JSONParse(s) ==
    LET r == ParseValue(s, 1)
    IN IF r.ok /\ SkipWs(s, r.i) > Len(s) THEN r ELSE SyntaxError

(***************************************************************************)
(* The feedback requester's extraction of the JSON text (App.tsx 108-115). *)
(***************************************************************************)
\* fenceRegex = /^```(?:json)?\s*\n?(.*?)\n?\s*```$/s applied to s, as the
\* backtracking matcher settles it: the text must open and close with a
\* fence (^ and $ are not multiline, . matches a newline); "json" is taken
\* when it follows the opening fence; the greedy \s* takes all the white
\* space after it, so group 1 starts at the first other character; the lazy
\* group stops at the first position from which only white space is left up
\* to the closing fence.
fenceRegex(s) ==
    LET n == Len(s)
        matched == n >= 6 /\ Slice(s, 1, 3) = FENCE /\ SubSeq(s, n - 2, n) = FENCE
        afterTag == IF Slice(s, 4, 7) = "json" THEN 8 ELSE 4
        first == SkipWs(s, afterTag)
        last == SkipWsBack(s, n - 3)
    IN [matched |-> matched,
        group1 |-> IF matched /\ last >= first THEN SubSeq(s, first, last) ELSE ""]

\* let jsonStr = response.text(); if (match && match[1]) jsonStr = match[1].trim()
jsonStr(text) ==
    LET match == fenceRegex(text)
    IN IF match.matched /\ match.group1 # "" THEN Trim(match.group1) ELSE text

(***************************************************************************)
(* The practice items (App.tsx 17-23); the phonetic transcriptions and     *)
(* translations, which no handler reads back, are left out.                *)
(***************************************************************************)
PRACTICE_ITEMS ==
    << [type |-> "pair", wordS |-> "sea", wordSh |-> "she"],
       [type |-> "pair", wordS |-> "seat", wordSh |-> "sheet"],
       [type |-> "pair", wordS |-> "sell", wordSh |-> "shell"],
       [type |-> "pair", wordS |-> "self", wordSh |-> "shelf"],
       [type |-> "sentence", text |-> "She sells seashells by the seashore."] >>

\* PRACTICE_ITEMS[currentItemIndex], the index counted from 0 as in the code.
ItemAt(index) == PRACTICE_ITEMS[index + 1]

\* The words the record buttons of an item pass to handleRecord.
RecordWords(item) ==
    IF item.type = "pair" THEN {item.wordS, item.wordSh} ELSE {item.text}

(***************************************************************************)
(* Values thrown or rejected: an Error with a name and a message, a string *)
(* (in message), or any other value.                                       *)
(***************************************************************************)
ErrorValue(name, message) == [kind |-> "Error", name |-> name, message |-> message]
StringValue(s) == [kind |-> "string", name |-> "", message |-> s]
OtherValue == [kind |-> "other", name |-> "", message |-> ""]
NoValue == [kind |-> "none", name |-> "", message |-> ""]

\* errorMessage with the test for "api key" made on the message as it is,
\* without toLowerCase.
errorMessage_CaseSensitive(err) ==
    IF err.kind = "Error"
    THEN IF err.name \in {"NotAllowedError", "PermissionDeniedError"}
         THEN "Microphone permission denied. Please allow access in your browser settings and try again."
         ELSE IF err.name = "NotFoundError"
         THEN "No microphone found. Please connect a microphone and try again."
         ELSE IF err.name = "NotReadableError"
         THEN "Microphone is already in use by another app. Please close it and try again."
         ELSE IF Includes(err.message, "api key")
         THEN "AI analysis failed. Please check API key configuration and permissions."
         ELSE "An error occurred: " \o err.message
    ELSE IF err.kind = "string" THEN err.message
    ELSE "An unknown error occurred during recording."

\* The message handleRecord's catch block shows for a caught value.
errorMessage(err) ==
    IF err.kind = "Error"
    THEN IF err.name \in {"NotAllowedError", "PermissionDeniedError"}
         THEN "Microphone permission denied. Please allow access in your browser settings and try again."
         ELSE IF err.name = "NotFoundError"
         THEN "No microphone found. Please connect a microphone and try again."
         ELSE IF err.name = "NotReadableError"
         THEN "Microphone is already in use by another app. Please close it and try again."
         ELSE IF Includes(ToLowerCase(err.message), "api key")
         THEN "AI analysis failed. Please check API key configuration and permissions."
         ELSE "An error occurred: " \o err.message
    ELSE IF err.kind = "string" THEN err.message
    ELSE "An unknown error occurred during recording."

(***************************************************************************)
(* What the platform and the AI service may answer.                        *)
(***************************************************************************)
\* Rejections of navigator.mediaDevices.getUserMedia.
MediaRejections ==
    { ErrorValue("NotAllowedError", "Permission denied"),
      ErrorValue("PermissionDeniedError", ""),
      ErrorValue("NotFoundError", "Requested device not found"),
      ErrorValue("NotReadableError", "Could not start audio source"),
      ErrorValue("AbortError", "Starting failed"),
      ErrorValue("SecurityError", "Blocked: no API Key for this origin"),
      OtherValue }

\* event.results[0][0].transcript of a result event.
Transcripts == {"sea", "", " \n"}

\* event.error of an error event.
RecognitionErrors == {"no-speech", "network"}

\* Errors thrown by generateContent or by response.text().
AiFailures ==
    { ErrorValue("Error", "API key not valid. Please pass a valid API key."),
      ErrorValue("TypeError", "Failed to fetch") }

GoodJson == "{\"isCorrect\":true,\"feedback\":\"ok\",\"tip\":\"go\"}"

\* Texts that JSON.parse accepts.
JsonTexts ==
    { GoodJson,
      "{\"isCorrect\": false, \"feedback\": \"no\", \"tip\": \"sh\"}",
      "{\"isCorrect\":\"yes\",\"feedback\":\"ok\",\"tip\":\"go\"}",
      "{\"isCorrect\":false,\"feedback\":\"no\"}",
      "null", "7", "[]" }

\* A JSON text inside a markdown code fence: the opening line with or
\* without the json tag, the closing line, white space around.
Fenced(lead, tag, J, trail) == lead \o FENCE \o tag \o "\n" \o J \o "\n" \o FENCE \o trail

FenceShapes ==
    { <<"", "json", "">>, <<"", "", "">>, <<"", "json", "\n">>,
      <<" ", "json", "">>, <<"", "json", " ">> }

FencedTexts == { Fenced(w[1], w[2], J, w[3]) : w \in FenceShapes, J \in JsonTexts }

\* response.text() of an answer of the AI service.
AiTexts == JsonTexts \cup FencedTexts \cup {"Sorry, I cannot help.", FENCE \o "json\n" \o FENCE}

\* JSON.parse(jsonStr) for each answer, worked out once.
feedbackResult == [text \in AiTexts |-> JSONParse(jsonStr(text))]

(***************************************************************************)
(* State of the page.                                                      *)
(***************************************************************************)
VARIABLES
    mediaDevices,       \* navigator.mediaDevices.getUserMedia exists
    SpeechRecognition,  \* window.SpeechRecognition || webkitSpeechRecognition exists
    ai,                 \* the GoogleGenerativeAI client exists (API_KEY is set)
    currentItemIndex,   \* React state of App, and below
    status,
    activeWord,
    feedback,
    error,
    attempts,           \* the handleRecord invocations, in the order they started
    staleUpTo,          \* the attempts started before the last handleNextItem
    feedbackOwner       \* the attempt whose setFeedback(result) is on screen, or 0

pageVars == <<mediaDevices, SpeechRecognition, ai, currentItemIndex, status,
              activeWord, feedback, error, attempts, staleUpTo, feedbackOwner>>

AttemptIds == 1..MaxAttempts

\* A handleRecord invocation that has not been made yet.  An invocation
\* has a position (pc), the recognition session and the promise that
\* recognizeSpeech made for it, and a log of what it did.  Its word and ipa
\* arguments go into the prompt only, which the answers of the AI service,
\* any of them at any time, do not depend on.
NoAttempt ==
    [pc |-> "new", log |-> <<>>, session |-> "none",
     promise |-> [state |-> "none", value |-> "", settles |-> 0]]

\* A handleRecord invocation that returned, with the recognition session and
\* the promise it made, which live on, and what it did from its start.
Finished(attempt, promise, log) ==
    [pc |-> "done", log |-> log, session |-> attempt.session, promise |-> promise]

Started == {a \in AttemptIds : attempts[a].pc # "new"}

InFlight(a) == attempts[a].pc \in {"awaitMedia", "awaitRecognition", "awaitAI"}

\* Attempt a was started before the last handleNextItem call.
Stale(a) == a <= staleUpTo

\* disabled={isAnalyzingOrRecording} on the record buttons.
isAnalyzingOrRecording == status = "analyzing" \/ status = "recording"

\* resolve(value) or reject(reason) of the promise recognizeSpeech returned:
\* only the first call settles it.
Settle(promise, state, value) ==
    IF promise.state = "pending"
    THEN [state |-> state, value |-> value, settles |-> promise.settles + 1]
    ELSE promise

PageInit ==
    /\ mediaDevices \in BOOLEAN
    /\ SpeechRecognition \in BOOLEAN
    /\ ai \in BOOLEAN
    /\ currentItemIndex = 0
    /\ status = "idle"
    /\ activeWord = JsNull
    /\ feedback = JsNull
    /\ error = ""
    /\ attempts = [a \in AttemptIds |-> NoAttempt]
    /\ staleUpTo = 0
    /\ feedbackOwner = 0

(***************************************************************************)
(* handleRecord (App.tsx 127-193), cut at its awaits.                      *)
(***************************************************************************)
\* A click on an enabled record button of the current item, up to the
\* await of getUserMedia.
handleRecord(a, word) ==
    /\ ~isAnalyzingOrRecording
    /\ word \in RecordWords(ItemAt(currentItemIndex))
    /\ \/ /\ ~mediaDevices
          /\ error' = "Your browser does not support microphone access. Please try on a modern browser like Chrome or Firefox."
          /\ status' = "idle"
          /\ UNCHANGED <<activeWord, feedback, feedbackOwner, attempts>>
       \/ /\ mediaDevices /\ ~SpeechRecognition
          /\ error' = "Speech recognition is not supported in this browser. Please try on a modern browser like Chrome or Firefox."
          /\ status' = "idle"
          /\ UNCHANGED <<activeWord, feedback, feedbackOwner, attempts>>
       \/ /\ mediaDevices /\ SpeechRecognition
          /\ attempts[a].pc = "new"
          /\ \A b \in AttemptIds : b < a => attempts[b].pc # "new"
          /\ activeWord' = JsString(word)
          /\ status' = "recording"
          /\ error' = ""
          /\ feedback' = JsNull
          /\ feedbackOwner' = 0
          /\ attempts' = [attempts EXCEPT ![a] =
                 [@ EXCEPT !.pc = "awaitMedia", !.log = <<"getUserMedia">>]]
    /\ UNCHANGED <<mediaDevices, SpeechRecognition, ai, currentItemIndex, staleUpTo>>

\* The catch block of handleRecord for the caught value err, the promise
\* and the log of the attempt as they are by then.
catchRecord(a, err, promise, log) ==
    /\ error' = errorMessage(err)
    /\ status' = "idle"
    /\ attempts' = [attempts EXCEPT ![a] = Finished(@, promise, log)]
    /\ UNCHANGED <<activeWord, feedback, feedbackOwner>>

\* recognizeSpeech (App.tsx 47-74) up to its return: the promise it makes
\* and the session it starts.
recognizeSpeech ==
    IF ~SpeechRecognition
    THEN [session |-> "none",
          promise |-> [state |-> "rejected",
                       value |-> "Speech recognition not supported in this browser.",
                       settles |-> 1]]
    ELSE [session |-> "running",
          promise |-> [state |-> "pending", value |-> "", settles |-> 0]]

\* getUserMediaResolved keeping the stream: its tracks are not stopped.
getUserMediaResolved_NoStop(a) ==
    /\ attempts[a].pc = "awaitMedia"
    /\ LET r == recognizeSpeech
           log == Append(attempts[a].log, "granted")
       IN IF r.promise.state = "rejected"
          THEN catchRecord(a, StringValue(r.promise.value), r.promise,
                           Append(log, "unsupported"))
          ELSE /\ attempts' = [attempts EXCEPT ![a] =
                      [pc |-> "awaitRecognition", log |-> Append(log, "start"),
                       session |-> r.session, promise |-> r.promise]]
               /\ UNCHANGED <<status, activeWord, feedback, error, feedbackOwner>>
    /\ UNCHANGED <<mediaDevices, SpeechRecognition, ai, currentItemIndex, staleUpTo>>

\* getUserMedia resolved: the tracks of the stream are stopped and
\* recognizeSpeech is called and awaited.
getUserMediaResolved(a) ==
    /\ attempts[a].pc = "awaitMedia"
    /\ LET r == recognizeSpeech
           log == attempts[a].log \o <<"granted", "stopTracks">>
       IN IF r.promise.state = "rejected"
          THEN catchRecord(a, StringValue(r.promise.value), r.promise,
                           Append(log, "unsupported"))
          ELSE /\ attempts' = [attempts EXCEPT ![a] =
                      [pc |-> "awaitRecognition", log |-> Append(log, "start"),
                       session |-> r.session, promise |-> r.promise]]
               /\ UNCHANGED <<status, activeWord, feedback, error, feedbackOwner>>
    /\ UNCHANGED <<mediaDevices, SpeechRecognition, ai, currentItemIndex, staleUpTo>>

\* getUserMediaRejected with the rejection swallowed: recognition is started
\* all the same.
getUserMediaRejected_Ignored(a, err) ==
    /\ attempts[a].pc = "awaitMedia"
    /\ attempts' = [attempts EXCEPT ![a] =
           [pc |-> "awaitRecognition", log |-> @.log \o <<"denied", "start">>,
            session |-> "running",
            promise |-> [state |-> "pending", value |-> "", settles |-> 0]]]
    /\ UNCHANGED <<status, activeWord, feedback, error, feedbackOwner>>
    /\ UNCHANGED <<mediaDevices, SpeechRecognition, ai, currentItemIndex, staleUpTo>>

\* getUserMedia rejected with err.
getUserMediaRejected(a, err) ==
    /\ attempts[a].pc = "awaitMedia"
    /\ catchRecord(a, err, attempts[a].promise, Append(attempts[a].log, "denied"))
    /\ UNCHANGED <<mediaDevices, SpeechRecognition, ai, currentItemIndex, staleUpTo>>

(***************************************************************************)
(* analyzePronunciation (App.tsx 91-125), cut at its await.                *)
(***************************************************************************)
\* analyzePronunciation sending its request twice.
analyzePronunciation_Twice(a, promise, log) ==
    IF ~ai
    THEN /\ error' = "API key is not configured."
         /\ status' = "idle"
         /\ attempts' = [attempts EXCEPT ![a] = Finished(@, promise, Append(log, "noKey"))]
         /\ UNCHANGED <<activeWord, feedback, feedbackOwner>>
    ELSE /\ status' = "analyzing"
         /\ error' = ""
         /\ feedback' = JsNull
         /\ feedbackOwner' = 0
         /\ attempts' = [attempts EXCEPT ![a] =
                [@ EXCEPT !.pc = "awaitAI", !.promise = promise,
                          !.log = log \o <<"generateContent", "generateContent">>]]
         /\ UNCHANGED activeWord

\* analyzePronunciation without its guard on the ai client.
analyzePronunciation_Unguarded(a, promise, log) ==
    /\ status' = "analyzing"
    /\ error' = ""
    /\ feedback' = JsNull
    /\ feedbackOwner' = 0
    /\ attempts' = [attempts EXCEPT ![a] =
           [@ EXCEPT !.pc = "awaitAI", !.promise = promise,
                     !.log = Append(log, "generateContent")]]
    /\ UNCHANGED activeWord

\* analyzePronunciation up to the await of generateContent, called by
\* attempt a, whose promise and log are given as they are by then.
analyzePronunciation(a, promise, log) ==
    IF ~ai
    THEN /\ error' = "API key is not configured."
         /\ status' = "idle"
         /\ attempts' = [attempts EXCEPT ![a] = Finished(@, promise, Append(log, "noKey"))]
         /\ UNCHANGED <<activeWord, feedback, feedbackOwner>>
    ELSE /\ status' = "analyzing"
         /\ error' = ""
         /\ feedback' = JsNull
         /\ feedbackOwner' = 0
         /\ attempts' = [attempts EXCEPT ![a] =
                [@ EXCEPT !.pc = "awaitAI", !.promise = promise,
                          !.log = Append(log, "generateContent")]]
         /\ UNCHANGED activeWord

\* catchAnalyze without its setError.
catchAnalyze_Silent(a, log) ==
    /\ status' = "idle"
    /\ attempts' = [attempts EXCEPT ![a] = Finished(@, @.promise, log)]
    /\ UNCHANGED <<activeWord, feedback, feedbackOwner, error>>

\* The catch block of analyzePronunciation; handleRecord then returns.
catchAnalyze(a, log) ==
    /\ error' = "Couldn't get feedback from AI. Please try again."
    /\ status' = "idle"
    /\ attempts' = [attempts EXCEPT ![a] = Finished(@, @.promise, log)]
    /\ UNCHANGED <<activeWord, feedback, feedbackOwner>>

\* generateContent returned an answer whose text() is text: the JSON text
\* is extracted and parsed, the value set as feedback.
generateContentReturned(a, text) ==
    /\ attempts[a].pc = "awaitAI"
    /\ LET parsed == feedbackResult[text]
       IN IF parsed.ok
          THEN /\ feedback' = parsed.v
               /\ feedbackOwner' = a
               /\ status' = "result"
               /\ attempts' = [attempts EXCEPT ![a] =
                      Finished(@, @.promise, @.log \o <<"returned", "setFeedback">>)]
               /\ UNCHANGED <<activeWord, error>>
          ELSE catchAnalyze(a, attempts[a].log \o <<"returned", "parseError">>)
    /\ UNCHANGED <<mediaDevices, SpeechRecognition, ai, currentItemIndex, staleUpTo>>

\* generateContent (or response.text()) threw err.
generateContentFailed(a, err) ==
    /\ attempts[a].pc = "awaitAI"
    /\ catchAnalyze(a, Append(attempts[a].log, "failed"))
    /\ UNCHANGED <<mediaDevices, SpeechRecognition, ai, currentItemIndex, staleUpTo>>

(***************************************************************************)
(* The events of a recognition session (App.tsx 59-70) and, when the event *)
(* settles the promise, the rest of handleRecord that awaited it.          *)
(***************************************************************************)
\* onresult with handleRecord lacking its check of the transcript.
onresult_Unchecked(a, transcript) ==
    /\ attempts[a].session = "running"
    /\ LET promise == Settle(attempts[a].promise, "resolved", transcript)
           log == Append(attempts[a].log, "resolved")
       IN IF attempts[a].pc = "awaitRecognition"
          THEN analyzePronunciation(a, promise, log)
          ELSE /\ attempts' = [attempts EXCEPT ![a].promise = promise]
               /\ UNCHANGED <<status, activeWord, feedback, error, feedbackOwner>>
    /\ UNCHANGED <<mediaDevices, SpeechRecognition, ai, currentItemIndex, staleUpTo>>

\* recognition.onresult with event.results[0][0].transcript = transcript.
onresult(a, transcript) ==
    /\ attempts[a].session = "running"
    /\ LET promise == Settle(attempts[a].promise, "resolved", transcript)
           log == Append(attempts[a].log, "resolved")
       IN IF attempts[a].pc = "awaitRecognition"
          THEN IF transcript = "" \/ Trim(transcript) = ""
               THEN /\ error' = "Couldn't hear any speech. Please try speaking a bit louder or closer to the mic."
                    /\ status' = "idle"
                    /\ attempts' = [attempts EXCEPT ![a] =
                           Finished(@, promise, Append(log, "empty"))]
                    /\ UNCHANGED <<activeWord, feedback, feedbackOwner>>
               ELSE analyzePronunciation(a, promise, log)
          ELSE /\ attempts' = [attempts EXCEPT ![a].promise = promise]
               /\ UNCHANGED <<status, activeWord, feedback, error, feedbackOwner>>
    /\ UNCHANGED <<mediaDevices, SpeechRecognition, ai, currentItemIndex, staleUpTo>>

\* recognition.onerror with event.error = code.
onerror(a, code) ==
    /\ attempts[a].session = "running"
    /\ LET reason == "Speech recognition error: " \o code
           promise == Settle(attempts[a].promise, "rejected", reason)
       IN IF attempts[a].pc = "awaitRecognition"
          THEN catchRecord(a, StringValue(reason), promise,
                           Append(attempts[a].log, "rejected"))
          ELSE /\ attempts' = [attempts EXCEPT ![a].promise = promise]
               /\ UNCHANGED <<status, activeWord, feedback, error, feedbackOwner>>
    /\ UNCHANGED <<mediaDevices, SpeechRecognition, ai, currentItemIndex, staleUpTo>>

\* recognition.onend: the session is over; the handler does nothing.
onend(a) ==
    /\ attempts[a].session = "running"
    /\ attempts' = [attempts EXCEPT ![a].session = "ended"]
    /\ UNCHANGED <<mediaDevices, SpeechRecognition, ai, currentItemIndex, status,
                   activeWord, feedback, error, staleUpTo, feedbackOwner>>

(***************************************************************************)
(* handleNextItem (App.tsx 195-201); the Next Item button is never         *)
(* disabled.                                                               *)
(***************************************************************************)
\* handleNextItem without the modulo: the index stops at the last item.
handleNextItem_NoWrap ==
    /\ currentItemIndex' =
           IF currentItemIndex + 1 < Len(PRACTICE_ITEMS)
           THEN currentItemIndex + 1 ELSE currentItemIndex
    /\ status' = "idle"
    /\ feedback' = JsNull
    /\ feedbackOwner' = 0
    /\ error' = ""
    /\ activeWord' = JsNull
    /\ staleUpTo' = Cardinality(Started)
    /\ UNCHANGED <<mediaDevices, SpeechRecognition, ai, attempts>>

\* handleNextItem without its setStatus('idle').
handleNextItem_KeepsStatus ==
    /\ currentItemIndex' = (currentItemIndex + 1) % Len(PRACTICE_ITEMS)
    /\ feedback' = JsNull
    /\ feedbackOwner' = 0
    /\ error' = ""
    /\ activeWord' = JsNull
    /\ staleUpTo' = Cardinality(Started)
    /\ UNCHANGED <<mediaDevices, SpeechRecognition, ai, attempts, status>>

handleNextItem ==
    /\ currentItemIndex' = (currentItemIndex + 1) % Len(PRACTICE_ITEMS)
    /\ status' = "idle"
    /\ feedback' = JsNull
    /\ feedbackOwner' = 0
    /\ error' = ""
    /\ activeWord' = JsNull
    /\ staleUpTo' = Cardinality(Started)
    /\ UNCHANGED <<mediaDevices, SpeechRecognition, ai, attempts>>

(***************************************************************************)
(* The backend handler (unnamed/part_000), cut at its await.               *)
(***************************************************************************)
VARIABLES
    handlers,       \* the invocations of the handler, in the order they started
    recognizeCalls  \* how many times speechClient.recognize was called

backendVars == <<handlers, recognizeCalls>>

RequestIds == 1..MaxRequests

\* req.body: undefined, or an object with or without an audio field.
NoBody == [present |-> FALSE, hasAudio |-> FALSE, audio |-> ""]
Body(hasAudio, audio) == [present |-> TRUE, hasAudio |-> hasAudio, audio |-> audio]

\* An invocation of the handler that has not been made yet: its position,
\* its request and the responses it sent.
NoHandler == [pc |-> "new", method |-> "", body |-> NoBody, sent |-> <<>>]

\* res.status(code).send(text) or res.status(code).json(value)
Response(code, body) == [status |-> code, body |-> body]

RECURSIVE Join(_, _)
\* Array.prototype.join
Join(strings, separator) ==
    IF strings = <<>> THEN ""
    ELSE IF Len(strings) = 1 THEN strings[1]
    ELSE strings[1] \o separator \o Join(Tail(strings), separator)

\* response.results.map(result => result.alternatives[0].transcript); the
\* call throws a TypeError when a result has no first alternative.
Transcription(results) ==
    IF \E k \in 1..Len(results) : results[k] = <<>>
    THEN [threw |-> TRUE, text |-> ""]
    ELSE [threw |-> FALSE,
          text |-> Join([k \in 1..Len(results) |-> results[k][1]], "\n")]

BackendInit ==
    /\ handlers = [r \in RequestIds |-> NoHandler]
    /\ recognizeCalls = 0

\* catchHandler without its res.status(500).send.
catchHandler_Silent(r) ==
    handlers' = [handlers EXCEPT ![r] = [@ EXCEPT !.pc = "done"]]

\* The catch block of the handler.
catchHandler(r) ==
    handlers' = [handlers EXCEPT ![r] =
        [@ EXCEPT !.pc = "done",
                  !.sent = Append(@, Response(500, "Internal Server Error"))]]

\* The handler called with a request, up to its return or to the await of
\* speechClient.recognize.
handler(r, method, body) ==
    /\ handlers[r].pc = "new"
    /\ \A q \in RequestIds : q < r => handlers[q].pc # "new"
    /\ LET h == [handlers[r] EXCEPT !.method = method, !.body = body]
           audioBytes == IF body.hasAudio THEN body.audio ELSE ""
       IN IF method # "POST"
          THEN /\ handlers' = [handlers EXCEPT ![r] =
                      [h EXCEPT !.pc = "done",
                                !.sent = Append(@, Response(405, "Method Not Allowed"))]]
               /\ UNCHANGED recognizeCalls
          ELSE IF ~body.present
          THEN /\ handlers' = [handlers EXCEPT ![r] =
                      [h EXCEPT !.pc = "done",
                                !.sent = Append(@, Response(500, "Internal Server Error"))]]
               /\ UNCHANGED recognizeCalls
          ELSE IF audioBytes = ""
          THEN /\ handlers' = [handlers EXCEPT ![r] =
                      [h EXCEPT !.pc = "done",
                                !.sent = Append(@, Response(400, "Bad Request: Missing audio data."))]]
               /\ UNCHANGED recognizeCalls
          ELSE /\ handlers' = [handlers EXCEPT ![r] = [h EXCEPT !.pc = "awaitRecognize"]]
               /\ recognizeCalls' = recognizeCalls + 1

\* speechClient.recognize resolved with a response whose results hold the
\* given transcripts, one list of alternatives for each result.
recognizeResolved(r, results) ==
    /\ handlers[r].pc = "awaitRecognize"
    /\ LET transcription == Transcription(results)
       IN IF transcription.threw
          THEN catchHandler(r)
          ELSE handlers' = [handlers EXCEPT ![r] =
                   [@ EXCEPT !.pc = "done",
                             !.sent = Append(@, Response(200, transcription.text))]]
    /\ UNCHANGED recognizeCalls

\* speechClient.recognize rejected.
recognizeRejected(r) ==
    /\ handlers[r].pc = "awaitRecognize"
    /\ catchHandler(r)
    /\ UNCHANGED recognizeCalls

Methods == {"POST", "GET"}

Bodies == {NoBody, Body(FALSE, ""), Body(TRUE, ""), Body(TRUE, "GkXfo59ChoEBQveBAULygQRC")}

\* response.results of the speech service: for each result the transcripts
\* of its alternatives.
ServiceResults ==
    { <<>>, << <<"sea">> >>, << <<"she", "sea">>, <<"sells">> >>, << <<"sea">>, <<>> >> }

(***************************************************************************)
(* Specifications.                                                         *)
(***************************************************************************)
vars == <<pageVars, backendVars>>

Init == PageInit /\ BackendInit

\* One answer of each kind, for the page with several recordings.
SomeRejections == {ErrorValue("NotAllowedError", "Permission denied")}
SomeTranscripts == {"sea", " \n"}
SomeRecognitionErrors == {"no-speech"}
SomeAiTexts ==
    {GoodJson, "null", Fenced("", "json", GoodJson, ""),
     Fenced("", "json", GoodJson, "\n"), "Sorry, I cannot help."}
SomeAiFailures == {ErrorValue("Error", "API key not valid. Please pass a valid API key.")}

\* The page with up to MaxAttempts recordings under way at once: a click,
\* or an answer of the platform or of the AI service.
Next ==
    \/ /\ \E a \in AttemptIds, word \in RecordWords(ItemAt(currentItemIndex)) :
              handleRecord(a, word)
       /\ UNCHANGED backendVars
    \/ /\ \E a \in AttemptIds : getUserMediaResolved(a)
       /\ UNCHANGED backendVars
    \/ /\ \E a \in AttemptIds, err \in SomeRejections : getUserMediaRejected(a, err)
       /\ UNCHANGED backendVars
    \/ /\ \E a \in AttemptIds, transcript \in SomeTranscripts : onresult(a, transcript)
       /\ UNCHANGED backendVars
    \/ /\ \E a \in AttemptIds, code \in SomeRecognitionErrors : onerror(a, code)
       /\ UNCHANGED backendVars
    \/ /\ \E a \in AttemptIds : onend(a)
       /\ UNCHANGED backendVars
    \/ /\ \E a \in AttemptIds, text \in SomeAiTexts : generateContentReturned(a, text)
       /\ UNCHANGED backendVars
    \/ /\ \E a \in AttemptIds, err \in SomeAiFailures : generateContentFailed(a, err)
       /\ UNCHANGED backendVars
    \/ /\ handleNextItem
       /\ UNCHANGED backendVars

Spec == Init /\ [][Next]_vars

\* The page with one recording and every answer of the platform and of the
\* AI service.
SingleNext ==
    \/ /\ \E word \in RecordWords(ItemAt(currentItemIndex)) : handleRecord(1, word)
       /\ UNCHANGED backendVars
    \/ /\ getUserMediaResolved(1)
       /\ UNCHANGED backendVars
    \/ /\ \E err \in MediaRejections : getUserMediaRejected(1, err)
       /\ UNCHANGED backendVars
    \/ /\ \E transcript \in Transcripts : onresult(1, transcript)
       /\ UNCHANGED backendVars
    \/ /\ \E code \in RecognitionErrors : onerror(1, code)
       /\ UNCHANGED backendVars
    \/ /\ onend(1)
       /\ UNCHANGED backendVars
    \/ /\ \E text \in AiTexts : generateContentReturned(1, text)
       /\ UNCHANGED backendVars
    \/ /\ \E err \in AiFailures : generateContentFailed(1, err)
       /\ UNCHANGED backendVars
    \/ /\ handleNextItem
       /\ UNCHANGED backendVars

SingleSpec == Init /\ [][SingleNext]_vars

\* The backend handler alone: a request, or an answer of the speech service.
BackendNext ==
    \/ /\ \E r \in RequestIds, method \in Methods, body \in Bodies : handler(r, method, body)
       /\ UNCHANGED pageVars
    \/ /\ \E r \in RequestIds : recognizeRejected(r)
       /\ UNCHANGED pageVars
    \/ /\ \E r \in RequestIds, results \in ServiceResults : recognizeResolved(r, results)
       /\ UNCHANGED pageVars

BackendSpec == Init /\ [][BackendNext]_vars

(***************************************************************************)
(* Properties.                                                             *)
(***************************************************************************)
\* The entries of a log.
Entries(log) == {log[k] : k \in 1..Len(log)}

\* How many times an entry is in a log.
Count(log, entry) == Cardinality({k \in 1..Len(log) : log[k] = entry})

\* The first position of an entry in a log, 0 when it is not there.
Pos(log, entry) ==
    LET at == {k \in 1..Len(log) : log[k] = entry}
    IN IF at = {} THEN 0 ELSE CHOOSE k \in at : \A j \in at : k <= j

\* C1: after handleNextItem feedback is null, and no attempt that was started
\* before the last handleNextItem call has its result on screen: a result on
\* screen (status "result", or a feedback that was set) comes from an
\* attempt started after that call.
C1_NoResultOfStaleAttempt ==
    /\ status = "result" => feedbackOwner # 0
    /\ feedbackOwner # 0 => ~Stale(feedbackOwner)

\* C2: once a recognition session has ended, the promise recognizeSpeech
\* returned for it is settled, and was settled once.
C2_SettledWhenEnded ==
    \A a \in AttemptIds :
        attempts[a].session = "ended" =>
            /\ attempts[a].promise.state \in {"resolved", "rejected"}
            /\ attempts[a].promise.settles = 1

\* A value with the three fields of Feedback: isCorrect a boolean, feedback
\* and tip text.
IsFeedback(v) ==
    /\ v.t = "object"
    /\ {"isCorrect", "feedback", "tip"} \subseteq DOMAIN v.m
    /\ v.m["isCorrect"].t = "boolean"
    /\ v.m["feedback"].t = "string"
    /\ v.m["tip"].t = "string"

\* C3: status is "result" only with a feedback that has the three fields.
C3_ResultIsValidated == status = "result" => IsFeedback(feedback)

\* C4: an attempt issues at most one generateContent request and sets
\* feedback at most once, and sets it only after its own recognition
\* resolved with a transcript and its own request returned; a feedback on
\* screen was set by such an attempt.
C4_OncePerAttempt ==
    /\ \A a \in AttemptIds :
         LET log == attempts[a].log
             resolved == Pos(log, "resolved")
             requested == Pos(log, "generateContent")
             returned == Pos(log, "returned")
             set == Pos(log, "setFeedback")
         IN /\ Count(log, "generateContent") <= 1
            /\ Count(log, "setFeedback") <= 1
            /\ requested > 0 =>
                   /\ 0 < resolved
                   /\ resolved < requested
                   /\ attempts[a].promise.state = "resolved"
                   /\ Trim(attempts[a].promise.value) # ""
            /\ set > 0 =>
                   /\ 0 < requested
                   /\ requested < returned
                   /\ returned < set
    /\ feedback # JsNull =>
           /\ feedbackOwner \in AttemptIds
           /\ "setFeedback" \in Entries(attempts[feedbackOwner].log)

\* C4 witness: an attempt has put a feedback on screen.
C4_Witness ==
    /\ feedback # JsNull
    /\ status = "result"
    /\ \E a \in AttemptIds : "setFeedback" \in Entries(attempts[a].log)

\* How a failed attempt ended, as its log tells.
FailureMarks == {"unsupported", "denied", "rejected", "empty", "noKey", "failed", "parseError"}

\* A step in which a handler meets a failure ends the attempt with a
\* non-empty error, status "idle" and the feedback as it was.
C5_Step ==
    /\ \A a \in AttemptIds :
           (attempts[a].pc # "done" /\ attempts'[a].pc = "done"
               /\ "setFeedback" \notin Entries(attempts'[a].log)) =>
               (/\ Entries(attempts'[a].log) \cap FailureMarks # {}
                /\ error' # ""
                /\ status' = "idle"
                /\ feedback' = feedback
                /\ feedbackOwner' # a)
    /\ \A a \in AttemptIds :
           (InFlight(a) /\ attempts'[a] # attempts[a]) =>
               (\/ InFlight(a)' /\ Entries(attempts'[a].log) \cap FailureMarks = {}
                \/ attempts'[a].pc = "done")
    /\ (/\ ~mediaDevices \/ ~SpeechRecognition
        /\ \E word \in RecordWords(ItemAt(currentItemIndex)) : handleRecord(1, word)) =>
           (/\ error' # ""
            /\ status' = "idle"
            /\ feedback' = feedback
            /\ attempts' = attempts)

\* C5: the handler that meets a failure (no microphone API, no speech
\* recognition, getUserMedia rejected, recognition rejected, empty
\* transcript, missing API key, AI request failed, AI response not
\* parseable) leaves a non-empty error and status "idle", sets no feedback,
\* and the attempt ends there.
C5_FailuresReported == [][C5_Step]_vars

\* C5 witness: an attempt failed at each stage, and its failure is shown.
C5_Witness ==
    /\ status = "idle"
    /\ error = "Couldn't get feedback from AI. Please try again."
    /\ \E a \in AttemptIds : attempts[a].pc = "done" /\ "parseError" \in Entries(attempts[a].log)

\* A handleNextItem step moves the index to the next one modulo 5, any
\* other step leaves it.
C6_Step ==
    IF handleNextItem
    THEN currentItemIndex' = (currentItemIndex + 1) % 5
    ELSE currentItemIndex' = currentItemIndex

\* C6: currentItemIndex starts at 0, stays in 0..4, handleNextItem moves it
\* to the next index modulo 5, and no other step changes it.
C6_CycledByIndex ==
    /\ currentItemIndex = 0
    /\ [](currentItemIndex \in 0..4 /\ Len(PRACTICE_ITEMS) = 5)
    /\ [][C6_Step]_vars

\* C6 witness: the last item is on screen, four calls after the start, with
\* a finished and an unfinished attempt behind.
C6_Witness ==
    /\ currentItemIndex = 4
    /\ \E a \in AttemptIds : attempts[a].pc = "done"
    /\ \E a \in AttemptIds : InFlight(a)

MentionsApiKey(message) ==
    \E k \in 1..Len(message) : ToLowerCase(Slice(message, k, k + 6)) = "api key"

\* The message the claim gives for a caught value.
C8_Message(err) ==
    CASE err.kind = "Error" /\ err.name \in {"NotAllowedError", "PermissionDeniedError"} ->
             "Microphone permission denied. Please allow access in your browser settings and try again."
      [] err.kind = "Error" /\ err.name = "NotFoundError" ->
             "No microphone found. Please connect a microphone and try again."
      [] err.kind = "Error" /\ err.name = "NotReadableError" ->
             "Microphone is already in use by another app. Please close it and try again."
      [] err.kind = "Error"
            /\ err.name \notin {"NotAllowedError", "PermissionDeniedError", "NotFoundError",
                                "NotReadableError"}
            /\ MentionsApiKey(err.message) ->
             "AI analysis failed. Please check API key configuration and permissions."
      [] err.kind = "Error"
            /\ err.name \notin {"NotAllowedError", "PermissionDeniedError", "NotFoundError",
                                "NotReadableError"}
            /\ ~MentionsApiKey(err.message) ->
             "An error occurred: " \o err.message
      [] err.kind = "string" -> err.message
      [] OTHER -> "An unknown error occurred during recording."

\* A step of the catch block shows the message of the lookup.
C8_Step ==
    /\ \A a \in AttemptIds, err \in MediaRejections :
           getUserMediaRejected(a, err) =>
               (error' = C8_Message(err) /\ status' = "idle")
    /\ \A a \in AttemptIds, code \in RecognitionErrors :
           (onerror(a, code) /\ attempts[a].pc = "awaitRecognition") =>
               (/\ error' = C8_Message(StringValue("Speech recognition error: " \o code))
                /\ error' = "Speech recognition error: " \o code
                /\ status' = "idle")

\* C8: the catch block of handleRecord shows the message of the lookup for
\* the value it caught, a rejected getUserMedia or a rejected recognition,
\* and leaves status "idle".
C8_ErrorLookup == [][C8_Step]_vars

\* C8 witness: an error that mentions the API key in capitals was caught.
C8_Witness ==
    /\ error = "AI analysis failed. Please check API key configuration and permissions."
    /\ status = "idle"
    /\ attempts[1].pc = "done"

\* A step that takes the answer J, or J in a code fence, gives status
\* "result" and the feedback J parses to.
C9_Step ==
    \A a \in AttemptIds, J \in JsonTexts :
        /\ generateContentReturned(a, J) =>
               (status' = "result" /\ feedback' = JSONParse(J).v)
        /\ \A w \in FenceShapes :
               generateContentReturned(a, Fenced(w[1], w[2], J, w[3])) =>
                   (status' = "result" /\ feedback' = JSONParse(J).v)

\* C9: an answer that is a JSON text J in a markdown code fence, of any of
\* the shapes, gives status "result" and the feedback J parses to, as the
\* answer J gives.
C9_FenceTolerated == [][C9_Step]_vars

\* C10: a request that is not a POST is answered 405, a POST request
\* without audio data (no body, no audio field, empty audio) is answered
\* 400, and neither reaches the speech service.
C10_RejectedRequests ==
    \A r \in RequestIds :
        LET h == handlers[r]
            noAudio == ~h.body.present \/ ~h.body.hasAudio \/ h.body.audio = ""
        IN /\ (h.pc # "new" /\ h.method # "POST") =>
                  /\ h.pc = "done"
                  /\ h.sent = <<Response(405, "Method Not Allowed")>>
           /\ (h.pc # "new" /\ h.method = "POST" /\ noAudio) =>
                  /\ h.pc = "done"
                  /\ h.sent = <<Response(400, "Bad Request: Missing audio data.")>>

RECURSIVE C11_Lines(_)
\* The first alternative of each result, each but the last followed by a
\* newline.
C11_Lines(results) ==
    IF Len(results) = 0 THEN ""
    ELSE C11_Lines(SubSeq(results, 1, Len(results) - 1))
             \o (IF Len(results) = 1 THEN "" ELSE "\n")
             \o results[Len(results)][1]

\* What a handler has sent: nothing before it is done, one response after.
C11_OneResponse ==
    \A r \in RequestIds :
        /\ handlers[r].pc # "done" => handlers[r].sent = <<>>
        /\ handlers[r].pc = "done" =>
               /\ Len(handlers[r].sent) = 1
               /\ handlers[r].sent[1].status \in {405, 400, 200, 500}

\* The responses of a handler are only added to, and only while it runs; an
\* answer of the speech service gives 200 with the first alternatives when
\* every result has one and 500 otherwise, a failure of the service 500.
C11_Step ==
    \A r \in RequestIds :
        /\ Len(handlers'[r].sent) >= Len(handlers[r].sent)
        /\ SubSeq(handlers'[r].sent, 1, Len(handlers[r].sent)) = handlers[r].sent
        /\ handlers[r].pc = "done" => handlers'[r] = handlers[r]
        /\ recognizeRejected(r) =>
               (handlers'[r].sent = <<Response(500, "Internal Server Error")>>)
        /\ \A results \in ServiceResults :
               recognizeResolved(r, results) =>
                   (handlers'[r].sent =
                        IF \A k \in 1..Len(results) : Len(results[k]) > 0
                        THEN <<Response(200, C11_Lines(results))>>
                        ELSE <<Response(500, "Internal Server Error")>>)

\* C11: the handler answers every request once: a handler that returned
\* has sent one response, of status 405, 400, 200 or 500, a running one
\* none; the 200 response carries the first alternative of each result
\* joined by newlines; nothing is sent after a response.
C11_AnsweredOnce == []C11_OneResponse /\ [][C11_Step]_vars

\* C11 witness: one request was answered 200 with two lines, another 500
\* after the speech service was called.
C11_Witness ==
    \E r, q \in RequestIds :
        /\ handlers[r].sent = <<Response(200, "she\nsells")>>
        /\ handlers[q].sent = <<Response(500, "Internal Server Error")>>
        /\ handlers[q].body.hasAudio /\ handlers[q].body.audio # ""

\* C12: at most one handleRecord invocation is unfinished (awaiting
\* getUserMedia, recognition or the AI service) at any time.
C12_OneInFlight == Cardinality({a \in AttemptIds : InFlight(a)}) <= 1

\* The attempt whose handleRecord set the activeWord now held: attempts
\* start in order and each sets activeWord, so it is the last one started.
C13_ActiveAttempt == Cardinality(Started)

\* C13: with status "result", activeWord holds a word of the item at
\* currentItemIndex, and the feedback on screen was set by the attempt
\* that recorded that word.
C13_ResultOfActiveWord ==
    status = "result" =>
        /\ activeWord # JsNull
        /\ activeWord.s \in RecordWords(ItemAt(currentItemIndex))
        /\ feedbackOwner = C13_ActiveAttempt

\* A change of status follows the order idle, recording, analyzing,
\* result: into "recording" from "idle" or "result", into "analyzing" from
\* "recording", into "result" from "analyzing".
C14_Step ==
    status' # status =>
        /\ status' = "recording" => status \in {"idle", "result"}
        /\ status' = "analyzing" => status = "recording"
        /\ status' = "result" => status = "analyzing"

\* C14: status is "idle" at first and every change of it follows the
\* four-state order.
C14_FourStateOrder == status = "idle" /\ [][C14_Step]_vars

\* C15: the tracks of every stream getUserMedia gave an attempt were
\* stopped right after it was given and before recognition was started or
\* the attempt ended: no attempt, running, finished or left behind by Next
\* Item, holds a stream whose tracks are not stopped.
C15_StreamReleased ==
    \A a \in AttemptIds :
        LET log == attempts[a].log
            granted == Pos(log, "granted")
            stopped == Pos(log, "stopTracks")
            start == Pos(log, "start")
        IN /\ Count(log, "granted") = Count(log, "stopTracks")
           /\ granted > 0 => stopped = granted + 1
           /\ start > 0 => (0 < stopped /\ stopped < start)
           /\ attempts[a].session # "none" => stopped > 0

\* C15 witness: an attempt whose recognition was started was left behind by
\* Next Item, and a later attempt has started recognition too.
C15_Witness ==
    \E a, b \in AttemptIds :
        /\ Stale(a) /\ ~Stale(b)
        /\ attempts[a].session # "none"
        /\ attempts[b].pc = "awaitRecognition"

\* A transcript that is empty or white space only, given to an attempt
\* that awaits it, ends the attempt with status "idle" and the message,
\* and without a generateContent call.
C16_Step ==
    \A a \in AttemptIds, transcript \in Transcripts :
        (Trim(transcript) = "" /\ attempts[a].pc = "awaitRecognition"
             /\ onresult(a, transcript)) =>
            (/\ status' = "idle"
             /\ error' = "Couldn't hear any speech. Please try speaking a bit louder or closer to the mic."
             /\ attempts'[a].pc = "done"
             /\ "generateContent" \notin Entries(attempts'[a].log))

\* An attempt that called generateContent has a transcript with a
\* character that is not white space.
C16_TranscriptJudged ==
    \A a \in AttemptIds :
        (attempts[a].pc = "awaitAI" \/ "generateContent" \in Entries(attempts[a].log)) =>
            /\ attempts[a].promise.state = "resolved"
            /\ \E k \in 1..Len(attempts[a].promise.value) :
                   At(attempts[a].promise.value, k) \notin WhiteSpace

\* C16: an empty or white-space-only transcript ends the attempt with
\* status "idle" and the error "Couldn't hear any speech...", without a
\* generateContent call; generateContent is only called with a transcript
\* that has a character that is not white space.
C16_NoEmptyTranscript == []C16_TranscriptJudged /\ [][C16_Step]_vars

\* C16 witness: the attempt got the empty transcript and ended with the
\* message.
C16_Witness ==
    /\ attempts[1].pc = "done"
    /\ attempts[1].promise = [state |-> "resolved", value |-> "", settles |-> 1]
    /\ "empty" \in Entries(attempts[1].log)
    /\ error = "Couldn't hear any speech. Please try speaking a bit louder or closer to the mic."

\* Without the ai client there is no analysis and no result.
C17_Disabled ==
    ~ai =>
        /\ status \notin {"analyzing", "result"}
        /\ feedback = JsNull
        /\ \A a \in AttemptIds :
               /\ attempts[a].pc # "awaitAI"
               /\ Entries(attempts[a].log) \cap {"generateContent", "setFeedback"} = {}

\* The ai client stays as it is, and without it a transcript given to an
\* attempt that awaits it ends the attempt with status "idle" and the
\* message.
C17_Step ==
    /\ ai' = ai
    /\ \A a \in AttemptIds, transcript \in SomeTranscripts :
           (~ai /\ Trim(transcript) # "" /\ attempts[a].pc = "awaitRecognition"
                /\ onresult(a, transcript)) =>
               (/\ status' = "idle"
                /\ error' = "API key is not configured."
                /\ attempts'[a].pc = "done")

\* C17: with no API key the ai client is null for the whole session:
\* status is never "analyzing" or "result", feedback stays null,
\* generateContent is never called, and an attempt whose recognition gives
\* a transcript ends with status "idle" and "API key is not configured.".
C17_NoKeyNoAnalysis == []C17_Disabled /\ [][C17_Step]_vars

\* C17 witness: without the ai client an attempt got its transcript and
\* ended with the message, after an earlier attempt did.
C17_Witness ==
    /\ ~ai
    /\ error = "API key is not configured."
    /\ status = "idle"
    /\ \A a \in 1..2 : attempts[a].pc = "done" /\ "noKey" \in Entries(attempts[a].log)

\* A generateContent call that fails with an Error whose message mentions
\* "api key" leaves the API-key message as the error.
C18_Step ==
    \A a \in AttemptIds, err \in AiFailures :
        (err.kind = "Error" /\ MentionsApiKey(err.message)
             /\ generateContentFailed(a, err)) =>
            (error' = "AI analysis failed. Please check API key configuration and permissions.")

\* C18: when the AI request of an attempt fails with an Error whose
\* message mentions "api key", the error shown at the end of the attempt is
\* "AI analysis failed. Please check API key configuration and permissions.".
C18_ApiFailureReported == [][C18_Step]_vars

\* C19: an error message is on screen only with status "idle".
C19_ErrorOnlyWhenIdle == error # "" => status = "idle"

\* C20: with status "recording", activeWord holds a word of the practice
\* item at currentItemIndex.
C20_ListeningToShownWord ==
    status = "recording" =>
        /\ activeWord # JsNull
        /\ activeWord.t = "string"
        /\ activeWord.s \in RecordWords(ItemAt(currentItemIndex))

\* C20 witness: a recording of a word of the second item is under way
\* while an attempt left behind by Next Item still waits for the AI service.
C20_Witness ==
    /\ status = "recording"
    /\ currentItemIndex = 1
    /\ activeWord = JsString("sheet")
    /\ \E a \in AttemptIds : Stale(a) /\ attempts[a].pc = "awaitAI"

====
